---- MODULE Spec2Model ----
\* A model of src/get_stats.py: one run of the scraper, from the parsing of the
\* command line to the exit of the process.  Text (the cache file) is a sequence
\* of characters, a package name is a non-empty sequence of characters, and an
\* optional value (None in the source) is the empty sequence, a present value v
\* the one-element sequence <<v>>.
EXTENDS Integers, Sequences, FiniteSets, TLC

VARIABLES
    argv,            \* the command line, each option as given or None (sort_by_downloads:
                     \* the flag is given or not); read once, by parse_user_args, and
                     \* None from then on
    args,            \* the parsed command line: limit, sort_by_downloads, max_workers;
                     \* None until parse_user_args has returned
    cwd,             \* the working directory of the process
    script_dir,      \* the directory that holds get_stats.py (parent_dir)
    files,           \* files[d]: package_names.txt in directory d: None, or Some(text)
    pc,              \* where main is
    listing_futures, \* get_package_names: the futures of the listing tasks
    package_names,   \* the list of names (get_package_names' local, then main's)
    futures,         \* main: the futures of the detail tasks, in submission order
    pages,           \* main: the dict name -> page, in insertion order
    stdout,          \* the documents printed to standard output
    stderr,          \* the messages main prints to standard error (progress bars
                     \* and the traceback of an uncaught exception are left out)
    ret,             \* how main ended
    exit_code,       \* the exit status of the process, None until it exits
    requests,        \* the listing pages a GET was issued for
    cache_at_start   \* history: the cache file as the run found it (never written)

vars == <<argv, args, cwd, script_dir, files, pc, listing_futures, package_names,
          futures, pages, stdout, stderr, ret, exit_code, requests, cache_at_start>>

\* what the process is started with: nothing of it changes during the run
started_with == <<argv, args, cwd, script_dir, cache_at_start>>

\* ------------------------------------------------------------------ bounds

\* N_PAGES is 198 at src/get_stats.py:23; the model runs a scaled-down channel.
N_PAGES == 2
\* the largest --limit tried (one more than N_PAGES, so that a limit can exceed it)
MaxLimit == 3
\* the largest --max_workers tried
MaxWorkers == 2
\* the channel lists at most MaxNames rows over all its listing pages, and a
\* cache file present at start holds at most MaxNames lines
MaxNames == 2
\* the largest download count a detail page states
MaxDownloads == 2
\* the longest text, in words, of a 'Last upload' node that is parsed
MaxWords == 3

\* ------------------------------------------------------------------ values

NL == "NL"
PackageNames == {<<"a">>, <<"b", "a">>}
Dirs == {"d1", "d2"}

None == <<>>
Some(v) == <<v>>

SeqsUpTo(S, n) == UNION {[1..k -> S] : k \in 0..n}

\* ------------------------------------------------------------------ text

\* '\n'.join(names), line 140
RECURSIVE Join(_)
Join(names) ==
    IF names = <<>> THEN <<>>
    ELSE IF Len(names) = 1 THEN names[1]
    ELSE names[1] \o <<NL>> \o Join(Tail(names))

\* str.splitlines(), line 132: a line ends at each line break, and the text after
\* the last line break is a line only when it is not empty.  lines are the lines
\* closed so far and cur the line being read.
RECURSIVE SplitFrom(_, _, _)
SplitFrom(text, lines, cur) ==
    IF text = <<>> THEN (IF cur = <<>> THEN lines ELSE Append(lines, cur))
    ELSE IF Head(text) = NL THEN SplitFrom(Tail(text), Append(lines, cur), <<>>)
    ELSE SplitFrom(Tail(text), lines, Append(cur, Head(text)))

SplitLines(text) == SplitFrom(text, <<>>, <<>>)

\* os.path.exists('package_names.txt'), line 131: a relative path, so the file
\* of the working directory
CachePath == cwd
CacheExists == files[CachePath] # None
\* open('package_names.txt').read().splitlines(), line 132
ReadCache == SplitLines(files[CachePath][1])
\* parent_dir/'package_names.txt', lines 128 and 139: the file beside the script
NamesPath == script_dir

\* ------------------------------------------------------------------ command line

\* action='store_true', default=True (line 115): given or not, the option is True
SortByDownloadsOption(flag) == IF flag THEN TRUE ELSE TRUE

\* the --limit values tried: not given (None), or an integer
Limits == {None} \cup {Some(n) : n \in (-1)..MaxLimit}

\* range(limit or N_PAGES), line 37: None and 0 are both falsy
PageRange(limit) ==
    IF limit = None \/ limit = Some(0) THEN 0..(N_PAGES - 1) ELSE 0..(limit[1] - 1)

\* ------------------------------------------------------------------ the pool

\* a future: queued, running (a worker executes it), finished (its result is
\* set), drained (as_completed has handed it to the draining thread)
Queued == [st |-> "queued"]
Running == [st |-> "running"]

Keys(fs) == DOMAIN fs
NumRunning(fs) == Cardinality({k \in Keys(fs) : fs[k].st = "running"})
\* one thread per submitted task: the worker count is not looked at
CanStartUnbounded(fs, k) ==
    /\ fs[k].st = "queued"
    /\ \A j \in Keys(fs) : j < k => fs[j].st # "queued"
\* a worker takes the oldest queued work item, when a worker is free
CanStart(fs, k) ==
    /\ fs[k].st = "queued"
    /\ \A j \in Keys(fs) : j < k => fs[j].st # "queued"
    /\ NumRunning(fs) < args.max_workers
\* a teardown that does not wait for the pending tasks
NoWaiting(fs) == TRUE
AllFinished(fs) == \A k \in Keys(fs) : fs[k].st \in {"finished", "drained"}
\* the loop ends as soon as one future was handed over
OneDrained(fs) == \E k \in Keys(fs) : fs[k].st = "drained"
AllDrained(fs) == \A k \in Keys(fs) : fs[k].st = "drained"

\* ------------------------------------------------------------------ detail pages

\* The markup of a detail page, as far as the three accessors read it: for each
\* title the first node that carries it, None when no node does.
\*   download_count: [numeric, value]  the node's span holds the digits of value,
\*                                     or (numeric FALSE) no number
\*   home_page:      [has_href]
\*   last_upload:    [has_text, text]  text is the node's third child, a list of
\*                                     words; has_text FALSE: fewer children
NumberWords == {"1", "2", "3"}
ValueOf(w) == CASE w = "1" -> 1 [] w = "2" -> 2 [] w = "3" -> 3

Url == "url"
FullPage(n) ==
    [download_count |-> Some([numeric |-> TRUE, value |-> n]),
     home_page |-> Some([has_href |-> TRUE]),
     last_upload |-> Some([has_text |-> TRUE, text |-> <<"2", "years", "1", "days">>])]
BarePage == [download_count |-> None, home_page |-> None, last_upload |-> None]
BadCountPage ==
    [download_count |-> Some([numeric |-> FALSE, value |-> 0]),
     home_page |-> Some([has_href |-> TRUE]),
     last_upload |-> None]
DetailPages == {FullPage(n) : n \in 1..MaxDownloads} \cup {BarePage, BadCountPage}

\* re.search(r"(\d+) %s" % unit, time_since), lines 74-77: the first number that
\* the unit follows; 0 when there is none (line 79)
MatchesAt(text, i, unit) ==
    /\ i + 1 <= Len(text)
    /\ text[i] \in NumberWords
    /\ text[i + 1] = unit
TimeOf(text, unit) ==
    IF \E i \in 1..Len(text) : MatchesAt(text, i, unit)
    THEN ValueOf(text[CHOOSE i \in 1..Len(text) :
                        /\ MatchesAt(text, i, unit)
                        /\ \A j \in 1..(i - 1) : ~MatchesAt(text, j, unit)])
    ELSE 0
\* parse_times, lines 69-80: the dict has its three keys, so `times or None` is times
parse_times(time_since) ==
    [years |-> TimeOf(time_since, "years"),
     months |-> TimeOf(time_since, "months"),
     days |-> TimeOf(time_since, "days")]

\* download_count, lines 82-86: int(tag.span.string) raises when the node holds
\* no number
download_count_raises(page) ==
    page.download_count # None /\ ~page.download_count[1].numeric
download_count(page) ==
    IF page.download_count = None THEN None
    ELSE Some(page.download_count[1].value)

\* homepage, lines 88-92: tag.attrs['href'] raises when the node has no href
homepage_raises(page) == page.home_page # None /\ ~page.home_page[1].has_href
homepage(page) == IF page.home_page = None THEN None ELSE Some(Url)

\* last_upload, lines 94-98: tag.contents[2] raises when the node has fewer
\* than three children
last_upload_raises(page) == page.last_upload # None /\ ~page.last_upload[1].has_text
last_upload(page) ==
    IF page.last_upload = None THEN None
    ELSE Some(parse_times(page.last_upload[1].text))

\* ------------------------------------------------------------------ dicts

\* A dict is the sequence of its items [key, val] in insertion order.
HasKey(d, k) == \E i \in 1..Len(d) : d[i].key = k
\* d[k] = v: a new key goes last, a key already there keeps its place
DictSet(d, k, v) ==
    IF HasKey(d, k)
    THEN [i \in 1..Len(d) |-> IF d[i].key = k THEN [key |-> k, val |-> v] ELSE d[i]]
    ELSE Append(d, [key |-> k, val |-> v])

\* the dict comprehension of lines 153-156 raises when a page is None (from_name
\* returned None: None has no attribute download_count) or an accessor raises
RecordRaises(page) ==
    \/ page = None
    \/ download_count_raises(page[1])
    \/ homepage_raises(page[1])
    \/ last_upload_raises(page[1])
PackageDataRaises(ps) == \E i \in 1..Len(ps) : RecordRaises(ps[i].val)
RecordOf(page) ==
    [downloads |-> download_count(page),
     homepage |-> homepage(page),
     last_upload |-> last_upload(page)]
\* the records keyed by the url of the page instead of the name
PackageDataKeyedByUrl(ps) ==
    [i \in 1..Len(ps) |->
        [key |-> <<"/">> \o ps[i].key, val |-> RecordOf(ps[i].val[1])]]
PackageData(ps) ==
    [i \in 1..Len(ps) |-> [key |-> ps[i].key, val |-> RecordOf(ps[i].val[1])]]

\* the sort key of line 161: package[1].get('downloads')
SortKey(item) == item.val.downloads
\* key a < key b (line 159): defined between two integers only
Less(a, b) == a[1] < b[1]
\* sorted compares every item with another one as soon as there are two items,
\* and comparing None raises TypeError ('<' not supported)
SortedRaises(items) ==
    Len(items) >= 2 /\ \E i \in 1..Len(items) : SortKey(items[i]) = None
\* sorted(items, key=...), line 159: a stable sort. Insert puts x after the
\* items of the sorted list that are not above it.
RECURSIVE Insert(_, _)
Insert(sorted, x) ==
    IF sorted = <<>> THEN <<x>>
    ELSE IF Less(SortKey(x), SortKey(sorted[Len(sorted)]))
         THEN Append(Insert(SubSeq(sorted, 1, Len(sorted) - 1), x), sorted[Len(sorted)])
         ELSE Append(sorted, x)
RECURSIVE SortedFrom(_, _)
SortedFrom(items, acc) ==
    IF items = <<>> THEN acc ELSE SortedFrom(Tail(items), Insert(acc, Head(items)))
\* a sort that returns its input as it came
SortedKeepsOrder(items) == items
Sorted(items) == IF Len(items) <= 1 THEN items ELSE SortedFrom(items, <<>>)

\* ------------------------------------------------------------------ the environment

\* what a listing task ends with: get_name_list_from_package_table raises (the
\* request or the parsing of the table failed), or returns the names of the page
ListingResults ==
    {[raised |-> TRUE, names |-> <<>>]}
        \cup {[raised |-> FALSE, names |-> ns] : ns \in SeqsUpTo(PackageNames, MaxNames)}
RECURSIVE SumLen(_, _)
SumLen(fs, ks) ==
    IF ks = {} THEN 0
    ELSE LET k == CHOOSE x \in ks : TRUE
         IN (IF fs[k].st \in {"finished", "drained"} THEN Len(fs[k].res.names) ELSE 0)
                + SumLen(fs, ks \ {k})
\* the rows the listing pages fetched so far hold
RowsSeen(fs) == SumLen(fs, Keys(fs))

\* what a detail task ends with: from_name returns None (the request or the
\* parsing failed, lines 107-109) or a page (line 106)
DetailResults == {None} \cup {Some(pg) : pg \in DetailPages}
\* the remote content does not change during a run: two fetches of one name that
\* both succeed see the same page
SamePageAsBefore(i, res) ==
    \A j \in Keys(futures) :
        (/\ j # i
         /\ package_names[j] = package_names[i]
         /\ futures[j].st \in {"finished", "drained"}
         /\ futures[j].res # None
         /\ res # None) => futures[j].res = res

\* the texts a cache file present at start can hold: up to MaxNames names, one
\* per line, the last line with or without its line break
CacheTexts ==
    {Join(ns) : ns \in SeqsUpTo(PackageNames, MaxNames)}
        \cup {Join(ns) \o <<NL>> : ns \in SeqsUpTo(PackageNames, MaxNames)}

\* ------------------------------------------------------------------ Init

\* max_workers is at least 1 (ThreadPoolExecutor refuses less)
Init ==
    /\ \E limit \in Limits, flag \in BOOLEAN, w \in 1..MaxWorkers :
          argv = Some([limit |-> limit, sort_by_downloads |-> flag, max_workers |-> w])
    /\ args = None
    /\ script_dir = "d1"
    /\ cwd \in Dirs
    /\ files \in [Dirs -> {None} \cup {Some(t) : t \in CacheTexts}]
    /\ \A d \in Dirs : d # cwd => files[d] = None
    /\ pc = "parse"
    /\ listing_futures = <<>>
    /\ package_names = <<>>
    /\ futures = <<>>
    /\ pages = <<>>
    /\ stdout = <<>>
    /\ stderr = <<>>
    /\ ret = "running"
    /\ exit_code = None
    /\ requests = {}
    /\ cache_at_start = files[cwd]

\* ------------------------------------------------------------------ main, start

\* line 127, then 112-117: the options are parsed from the command line
ParseUserArgs ==
    /\ pc = "parse"
    /\ args' = [limit |-> argv[1].limit,
                sort_by_downloads |-> SortByDownloadsOption(argv[1].sort_by_downloads),
                max_workers |-> argv[1].max_workers]
    /\ argv' = None
    /\ pc' = "start"
    /\ UNCHANGED <<cwd, script_dir, files, listing_futures, package_names, futures,
                   pages, stdout, stderr, ret, exit_code, requests, cache_at_start>>

\* one task per distinct name instead of one per entry of the list
SubmittedPerDistinctName(names) ==
    [i \in 1..Cardinality({names[k] : k \in 1..Len(names)}) |-> Queued]
\* lines 143-144: one detail task per name of the list, all submitted at once
Submitted(names) == [i \in 1..Len(names) |-> Queued]

\* lines 131-132, then 143-145: the cache file is there; its lines are the names
StartCached ==
    /\ pc = "start"
    /\ CacheExists
    /\ package_names' = ReadCache
    /\ futures' = Submitted(ReadCache)
    /\ pages' = <<>>
    /\ pc' = "fetching"
    /\ UNCHANGED <<started_with, files, listing_futures, stdout, stderr,
                   ret, exit_code, requests, cache_at_start>>

\* lines 133-134, then 35-37: no cache file; get_package_names submits one
\* listing task per page
StartListing ==
    /\ pc = "start"
    /\ ~CacheExists
    /\ listing_futures' = [p \in PageRange(args.limit) |-> Queued]
    /\ package_names' = <<>>
    /\ pc' = "listing"
    /\ UNCHANGED <<started_with, files, futures, pages, stdout, stderr,
                   ret, exit_code, requests, cache_at_start>>

\* ------------------------------------------------------------------ listing phase

\* a worker takes listing task p and issues its GET (line 28)
ListingStart(p) ==
    /\ pc \in {"listing", "listing_raised"}
    /\ CanStart(listing_futures, p)
    /\ listing_futures' = [listing_futures EXCEPT ![p] = Running]
    /\ requests' = requests \cup {p}
    /\ UNCHANGED <<started_with, files, pc, package_names, futures, pages,
                   stdout, stderr, ret, exit_code, cache_at_start>>

\* the task ends (lines 28-30): the future holds its names or its exception
ListingFinish(p) ==
    /\ pc \in {"listing", "listing_raised"}
    /\ listing_futures[p].st = "running"
    /\ \E res \in ListingResults :
          /\ RowsSeen(listing_futures) + Len(res.names) <= MaxNames
          /\ listing_futures' =
                 [listing_futures EXCEPT ![p] = [st |-> "finished", res |-> res]]
    /\ UNCHANGED <<started_with, files, pc, package_names, futures, pages,
                   stdout, stderr, ret, exit_code, requests, cache_at_start>>

\* lines 38-42: as_completed hands a finished future to the loop.  A result is
\* appended to package_names.  An exception is caught, and the handler raises
\* in its turn: it reads the undefined name num and calls the integer
\* logging.ERROR; nothing catches that, and it leaves the loop.
ListingDrain(p) ==
    /\ pc = "listing"
    /\ listing_futures[p].st = "finished"
    /\ listing_futures' = [listing_futures EXCEPT ![p].st = "drained"]
    /\ IF listing_futures[p].res.raised
       THEN /\ pc' = "listing_raised"
            /\ UNCHANGED package_names
       ELSE /\ pc' = pc
            /\ package_names' = package_names \o listing_futures[p].res.names
    /\ UNCHANGED <<started_with, files, futures, pages, stdout, stderr,
                   ret, exit_code, requests, cache_at_start>>

\* line 36: the exception leaves the with block, whose exit waits for every
\* task (shutdown(wait=True)); then it leaves get_package_names and, line 134
\* being outside the try, main
ListingAbort ==
    /\ pc = "listing_raised"
    /\ AllFinished(listing_futures)
    /\ pc' = "returned"
    /\ ret' = "exception"
    /\ listing_futures' = <<>>
    /\ UNCHANGED <<started_with, files, package_names, futures, pages,
                   stdout, stderr, exit_code, requests, cache_at_start>>

\* the cache file is written before the list is tested for emptiness
ListingReturnWritesFirst ==
    /\ pc = "listing"
    /\ AllDrained(listing_futures)
    /\ listing_futures' = <<>>
    /\ files' = [files EXCEPT ![NamesPath] = Some(Join(package_names))]
    /\ IF package_names = <<>>
       THEN /\ stderr' = Append(stderr, "Could not parse package name list")
            /\ ret' = "1"
            /\ pc' = "returned"
            /\ UNCHANGED <<futures, pages>>
       ELSE /\ futures' = Submitted(package_names)
            /\ pages' = <<>>
            /\ pc' = "fetching"
            /\ UNCHANGED <<stderr, ret>>
    /\ UNCHANGED <<started_with, package_names, stdout, exit_code, requests>>

\* line 43 and lines 135-145: get_package_names returns.  Without a name main
\* prints the error and returns 1; else it writes the names beside the script
\* and submits the detail tasks.
ListingReturn ==
    /\ pc = "listing"
    /\ AllDrained(listing_futures)
    /\ listing_futures' = <<>>
    /\ IF package_names = <<>>
       THEN /\ stderr' = Append(stderr, "Could not parse package name list")
            /\ ret' = "1"
            /\ pc' = "returned"
            /\ UNCHANGED <<files, futures, pages>>
       ELSE /\ files' = [files EXCEPT ![NamesPath] = Some(Join(package_names))]
            /\ futures' = Submitted(package_names)
            /\ pages' = <<>>
            /\ pc' = "fetching"
            /\ UNCHANGED <<stderr, ret>>
    /\ UNCHANGED <<started_with, package_names, stdout, exit_code, requests>>

\* ------------------------------------------------------------------ detail phase

\* a worker takes detail task i (from_name, line 102)
DetailStart(i) ==
    /\ pc = "fetching"
    /\ CanStart(futures, i)
    /\ futures' = [futures EXCEPT ![i] = Running]
    /\ UNCHANGED <<started_with, files, pc, listing_futures, package_names,
                   pages, stdout, stderr, ret, exit_code, requests, cache_at_start>>

\* the worker stores its page in the shared dict itself
DetailFinishStoresPage(i) ==
    /\ pc = "fetching"
    /\ futures[i].st = "running"
    /\ \E res \in DetailResults :
          /\ SamePageAsBefore(i, res)
          /\ futures' = [futures EXCEPT ![i] = [st |-> "finished", res |-> res]]
          /\ pages' = DictSet(pages, package_names[i], res)
    /\ UNCHANGED <<started_with, files, pc, listing_futures, package_names,
                   stdout, stderr, ret, exit_code, requests>>
\* from_name returns (lines 103-109): the page, or None when anything raised
DetailFinish(i) ==
    /\ pc = "fetching"
    /\ futures[i].st = "running"
    /\ \E res \in DetailResults :
          /\ SamePageAsBefore(i, res)
          /\ futures' = [futures EXCEPT ![i] = [st |-> "finished", res |-> res]]
    /\ UNCHANGED <<started_with, files, pc, listing_futures, package_names,
                   pages, stdout, stderr, ret, exit_code, requests, cache_at_start>>

\* lines 146-149: as_completed hands a finished future to the loop, which
\* stores its result under the task's name (from_name raises nothing, so the
\* handler of lines 150-151 never runs)
DetailDrain(i) ==
    /\ pc = "fetching"
    /\ futures[i].st = "finished"
    /\ futures' = [futures EXCEPT ![i].st = "drained"]
    /\ pages' = DictSet(pages, package_names[i], futures[i].res)
    /\ UNCHANGED <<started_with, files, pc, listing_futures, package_names,
                   stdout, stderr, ret, exit_code, requests, cache_at_start>>

\* ------------------------------------------------------------------ reporting

\* lines 153-168: the records, the sort, the print; any exception is caught at
\* line 166, reported on standard error, and main returns 1
ReportRaises ==
    \/ PackageDataRaises(pages)
    \/ args.sort_by_downloads /\ SortedRaises(PackageData(pages))
\* the records printed in the order of the dict pages, the sort left out
DocumentInCompletionOrder == PackageData(pages)
Document ==
    IF args.sort_by_downloads THEN Sorted(PackageData(pages)) ELSE PackageData(pages)

Report ==
    /\ pc = "fetching"
    /\ AllDrained(futures)
    /\ IF ReportRaises
       THEN /\ stderr' = Append(stderr, "Could not get package counts")
            /\ ret' = "1"
            /\ UNCHANGED stdout
       ELSE /\ stdout' = Append(stdout, Document)
            /\ ret' = "None"
            /\ UNCHANGED stderr
    /\ pc' = "returned"
    /\ UNCHANGED <<started_with, files, listing_futures, package_names,
                   futures, pages, exit_code, requests, cache_at_start>>

\* lines 170-171: the script calls main() and drops what it returns; the exit
\* status is 1 only when an exception left main
ExitStatus(r) == IF r = "exception" THEN 1 ELSE 0

Exit ==
    /\ pc = "returned"
    /\ exit_code' = Some(ExitStatus(ret))
    /\ pc' = "exited"
    /\ UNCHANGED <<started_with, files, listing_futures, package_names,
                   futures, pages, stdout, stderr, ret, requests, cache_at_start>>

Next ==
    \/ ParseUserArgs
    \/ StartCached
    \/ StartListing
    \/ \E p \in Keys(listing_futures) : ListingStart(p)
    \/ \E p \in Keys(listing_futures) : ListingFinish(p)
    \/ \E p \in Keys(listing_futures) : ListingDrain(p)
    \/ ListingAbort
    \/ ListingReturn
    \/ \E i \in Keys(futures) : DetailStart(i)
    \/ \E i \in Keys(futures) : DetailFinish(i)
    \/ \E i \in Keys(futures) : DetailDrain(i)
    \/ Report
    \/ Exit

Spec == Init /\ [][Next]_vars

\* ------------------------------------------------------------------ properties

NoNamesMessage == "Could not parse package name list"
ReportMessage == "Could not get package counts"
Returned == pc \in {"returned", "exited"}
\* main came to the end of the detail phase and ran lines 153-168
DetailPhaseOver == Returned /\ ret \in {"None", "1"} /\ stderr # <<NoNamesMessage>>
Emitted == stdout # <<>>
Succeeded(fs) == {k \in Keys(fs) : fs[k].st \in {"finished", "drained"} /\ ~fs[k].res.raised}
Fetched == {i \in Keys(futures) : futures[i].st = "drained" /\ futures[i].res # None}
\* a page on which every accessor returns and the download count is stated
Regular(page) ==
    /\ ~download_count_raises(page)
    /\ ~homepage_raises(page)
    /\ ~last_upload_raises(page)
    /\ download_count(page) # None

\* C1: a run in which some detail fetches fail (from_name returns None) and every
\* page that was fetched is regular ends in success and prints a ResultSet that
\* holds a record for every package whose fetch succeeded.
C1_FailedFetchesAreIsolated ==
    (/\ DetailPhaseOver
     /\ package_names # <<>>
     /\ \A i \in Fetched : Regular(futures[i].res[1]))
        => /\ ret = "None"
           /\ Emitted
           /\ \A i \in Fetched : HasKey(stdout[1], package_names[i])

\* C2: when every listing task has ended, one of them raised and another one
\* returned names, the drain loop is still running (the exception was caught
\* there and did not leave it), and a run that ended in the listing phase
\* obtained no name at all.
C2_ListingFailureIsCaught ==
    /\ (/\ pc \in {"listing", "listing_raised"}
        /\ AllFinished(listing_futures)
        /\ \E p \in Keys(listing_futures) : listing_futures[p].res.raised
        /\ \E q \in Succeeded(listing_futures) : listing_futures[q].res.names # <<>>)
           => pc = "listing"
    /\ (Returned /\ ~DetailPhaseOver) => package_names = <<>>

Count(seq, x) == Cardinality({i \in 1..Len(seq) : seq[i] = x})
RECURSIVE SumCount(_, _, _)
SumCount(fs, ks, x) ==
    IF ks = {} THEN 0
    ELSE LET k == CHOOSE y \in ks : TRUE
         IN Count(fs[k].res.names, x) + SumCount(fs, ks \ {k}, x)

\* C3: when every listing task has ended and the drain loop is over, whatever the
\* order of completion, get_package_names is about to return a list whose length
\* is the sum of the k_i of the pages that succeeded, with every name as often
\* as the succeeding pages hold it.
C3_NamesAreTheSumOfThePages ==
    (/\ pc \in {"listing", "listing_raised"}
     /\ AllFinished(listing_futures)
     /\ pc = "listing_raised" \/ AllDrained(listing_futures))
        => /\ pc = "listing"
           /\ Len(package_names) =
                  SumLen(listing_futures, Succeeded(listing_futures))
           /\ \A x \in PackageNames :
                  Count(package_names, x) =
                      SumCount(listing_futures, Succeeded(listing_futures), x)

\* C4: the exit status is 1 exactly when no package name could be obtained or
\* the reporting step raised, and 0 otherwise.
C4_ExitCodeTellsFailure ==
    pc = "exited" =>
        exit_code =
            Some(IF stderr = <<NoNamesMessage>> \/ stderr = <<ReportMessage>>
                 THEN 1 ELSE 0)

IsPermutation(a, b) ==
    /\ Len(a) = Len(b)
    /\ \A i \in 1..Len(b) : \E j \in 1..Len(a) : a[j] = b[i]
    /\ \A i, j \in 1..Len(a) : a[i].key = a[j].key => i = j
NonDecreasing(doc) ==
    \A i, j \in 1..Len(doc) : i < j => doc[i].val.downloads[1] <= doc[j].val.downloads[1]
AllDownloadsPresent(ps) ==
    \A i \in 1..Len(ps) : download_count(ps[i].val[1]) # None

\* C5: with the sort option on and a download count in every record, the run
\* prints one document, a permutation of the collected records in
\* non-decreasing order of downloads.
C5_SortedByDownloads ==
    (/\ DetailPhaseOver
     /\ args.sort_by_downloads
     /\ ~PackageDataRaises(pages)
     /\ AllDownloadsPresent(pages))
        => /\ Len(stdout) = 1
           /\ IsPermutation(stdout[1], PackageData(pages))
           /\ NonDecreasing(stdout[1])

\* C5, witness: two records were printed that were collected in descending order
C5_Witness ==
    /\ DetailPhaseOver
    /\ args.sort_by_downloads
    /\ Emitted
    /\ Len(pages) = 2
    /\ AllDownloadsPresent(pages)
    /\ download_count(pages[1].val[1])[1] > download_count(pages[2].val[1])[1]

AbsentFirst(doc) ==
    \A i, j \in 1..Len(doc) :
        (doc[i].val.downloads = None /\ doc[j].val.downloads # None) => i < j
AbsentLast(doc) ==
    \A i, j \in 1..Len(doc) :
        (doc[i].val.downloads = None /\ doc[j].val.downloads # None) => i > j

\* C6: with the sort option on, two or more records and a record without a
\* download count, the sort returns, the run prints the full ResultSet, and the
\* records without a count stand all first or all last.
C6_AbsentDownloadsAreSorted ==
    (/\ DetailPhaseOver
     /\ args.sort_by_downloads
     /\ ~PackageDataRaises(pages)
     /\ Len(pages) >= 2
     /\ ~AllDownloadsPresent(pages))
        => /\ ret = "None"
           /\ Len(stdout) = 1
           /\ IsPermutation(stdout[1], PackageData(pages))
           /\ AbsentFirst(stdout[1]) \/ AbsentLast(stdout[1])

\* the dict pages of the run whose tasks are drained in the order of submission
RECURSIVE PagesInOrder(_)
PagesInOrder(n) ==
    IF n = 0 THEN <<>>
    ELSE DictSet(PagesInOrder(n - 1), package_names[n], futures[n].res)
ReferencePages == PagesInOrder(Len(futures))
ReferenceRaises ==
    \/ PackageDataRaises(ReferencePages)
    \/ args.sort_by_downloads /\ SortedRaises(PackageData(ReferencePages))
ReferenceDocument ==
    IF args.sort_by_downloads
    THEN SortedFrom(PackageData(ReferencePages), <<>>)
    ELSE PackageData(ReferencePages)
\* fixed remote content: every fetch of one name ended the same way
FixedRemote ==
    \A i, j \in Keys(futures) :
        package_names[i] = package_names[j] => futures[i].res = futures[j].res
SameAsInOrderRun ==
    /\ Emitted <=> ~ReferenceRaises
    /\ Emitted => stdout[1] = ReferenceDocument
DistinctDownloads(ps) ==
    \A i, j \in 1..Len(ps) :
        (i # j /\ ps[i].val # None /\ ps[j].val # None)
            => download_count(ps[i].val[1]) # download_count(ps[j].val[1])

\* C7 as stated: with the sort option on, fixed names and fixed remote content,
\* the run prints what the run that drains its tasks in the order of submission
\* prints, whatever the order of completion.
C7_OutputIndependentOfCompletion ==
    (DetailPhaseOver /\ args.sort_by_downloads /\ FixedRemote) => SameAsInOrderRun

\* C7, amended: the same, provided no two records state the same download count
\* (the sort is stable, so records with equal counts stay in completion order).
C7_OutputIndependentWithoutTies ==
    (/\ DetailPhaseOver
     /\ args.sort_by_downloads
     /\ FixedRemote
     /\ DistinctDownloads(pages))
        => SameAsInOrderRun

\* C7, witness: two records with different counts were printed by a run whose
\* second task was drained first
C7_Witness ==
    /\ DetailPhaseOver
    /\ args.sort_by_downloads
    /\ FixedRemote
    /\ DistinctDownloads(pages)
    /\ Emitted
    /\ Len(pages) = 2
    /\ pages[1].key = package_names[2]
    /\ pages[1].key # pages[2].key

\* the lines of a text, counted on the text itself: one per line break, and one
\* more when text follows the last line break
LineCount(text) ==
    Cardinality({i \in 1..Len(text) : text[i] = NL})
        + (IF text # <<>> /\ text[Len(text)] # NL THEN 1 ELSE 0)

\* C8: when the cache file is there at start, whatever --limit is, no listing
\* request is issued at any time of the run, and the detail tasks submitted are
\* one per line of the file: as many as it has lines, task i for line i (the
\* names, joined by line breaks, are the file's text up to its last line break).
C8_CacheSkipsListing ==
    cache_at_start # None =>
        /\ requests = {}
        /\ listing_futures = <<>>
        /\ pc \notin {"listing", "listing_raised"}
        /\ pc \notin {"parse", "start"} =>
              /\ Keys(futures) = 1..LineCount(cache_at_start[1])
              /\ Len(package_names) = LineCount(cache_at_start[1])
              /\ \A i \in Keys(futures) : NL \notin {package_names[i][k] : k \in 1..Len(package_names[i])}
              /\ cache_at_start[1] \in {Join(package_names), Join(package_names) \o <<NL>>}

\* C8, witness: a run with a limit of one page ended on a cache of two equal lines
C8_Witness ==
    /\ cache_at_start # None
    /\ pc = "exited"
    /\ args.limit = Some(1)
    /\ Len(futures) = 2
    /\ package_names[1] = package_names[2]

\* C9: once a run that found no cache file has listed at least one name and gone
\* on, the file whose presence is checked at start exists and reads back as
\* exactly the names listed, in their order (so the next run skips the listing
\* and uses these names).
C9_CacheWrittenWhereItIsRead ==
    (/\ cache_at_start = None
     /\ pc \in {"fetching", "returned", "exited"}
     /\ ret # "exception"
     /\ package_names # <<>>)
        => CacheExists /\ ReadCache = package_names

\* C10: with --limit L, L >= 0, the listing phase requests at most L pages, all
\* among 0..L-1, and at its end exactly these; without --limit it has requested
\* the N_PAGES pages at its end.
ListingOver == cache_at_start = None /\ pc \in {"fetching", "returned", "exited"}
C10_LimitCapsTheRequests ==
    pc # "parse" =>
        /\ (args.limit # None /\ args.limit[1] >= 0) =>
              /\ requests \subseteq 0..(args.limit[1] - 1)
              /\ Cardinality(requests) <= args.limit[1]
              /\ ListingOver => requests = 0..(args.limit[1] - 1)
        /\ (args.limit = None /\ ListingOver) => requests = 0..(N_PAGES - 1)

PhaseRank(p) ==
    CASE p = "parse" -> 0
      [] p = "start" -> 1
      [] p = "listing" -> 2
      [] p = "listing_raised" -> 3
      [] p = "fetching" -> 4
      [] p = "returned" -> 5
      [] p = "exited" -> 6

\* C11: the phases of a run are strictly ordered.  The detail tasks are submitted
\* in a step before which every listing task was drained (none exists when the
\* cache was read), detail tasks exist in the detail phase and after it only,
\* the document is printed in a step before which every detail task was
\* drained, and no step takes main back to an earlier phase.
C11_PhasesAreOrdered ==
    [][/\ PhaseRank(pc') >= PhaseRank(pc)
       /\ (pc # "fetching" /\ pc' = "fetching") =>
              /\ \A p \in DOMAIN listing_futures : listing_futures[p].st = "drained"
              /\ pc = "start" => package_names' = ReadCache
       /\ futures' # <<>> => pc' \in {"fetching", "returned", "exited"}
       /\ futures' # futures =>
              \A p \in DOMAIN listing_futures' : listing_futures'[p].st = "drained"
       /\ stdout' # stdout =>
              \A i \in DOMAIN futures : futures[i].st = "drained"]_vars

\* C11, witness: a run listed two pages, fetched two detail pages and printed
C11_Witness ==
    /\ cache_at_start = None
    /\ Cardinality(requests) >= 2
    /\ Len(futures) >= 2
    /\ Emitted
    /\ pc = "exited"

\* a step of a worker thread on the futures fs: it takes a task or ends one
WorkerStepOn(fs, after) ==
    /\ DOMAIN fs = DOMAIN after
    /\ \E k \in DOMAIN fs :
          after[k].st # fs[k].st /\ after[k].st \in {"running", "finished"}
\* a step of the draining thread on the futures fs: it is handed a finished future
DrainStepOn(fs, after) ==
    /\ DOMAIN fs = DOMAIN after
    /\ \E k \in DOMAIN fs : fs[k].st = "finished" /\ after[k].st = "drained"

\* C13: in both collection phases a step that writes an accumulator (the list
\* package_names, the dict pages) is a step of the draining thread that was
\* handed a finished future, never a step of a worker; so no two threads write
\* an accumulator.
C13_OnlyTheDrainingThreadWrites ==
    [][/\ (package_names' # package_names \/ pages' # pages) =>
              /\ ~WorkerStepOn(listing_futures, listing_futures')
              /\ ~WorkerStepOn(futures, futures')
       /\ (pc = "listing" /\ package_names' # package_names) =>
              DrainStepOn(listing_futures, listing_futures')
       /\ (pc = "fetching" /\ pages' # pages) => DrainStepOn(futures, futures')]_vars

\* C13, witness: a page is in the dict while a worker still executes a task
C13_Witness ==
    /\ pc = "fetching"
    /\ Len(pages) >= 1
    /\ NumRunning(futures) >= 1

\* the detail tasks whose result was stored under key k (line 149)
Writers(k) == {i \in Keys(futures) : futures[i].st = "drained" /\ package_names[i] = k}

\* C14: whatever name list the run obtained, from the listing or from the cache
\* file, every key of the dict pages was written by the result of at most one
\* detail task.
C14_OneProducerPerKey ==
    \A n \in 1..Len(pages) : Cardinality(Writers(pages[n].key)) <= 1

\* an accessor raises on the page (a field-extraction error)
ExtractionFails(page) ==
    \/ download_count_raises(page)
    \/ homepage_raises(page)
    \/ last_upload_raises(page)
BrokenPages == {i \in Fetched : ExtractionFails(futures[i].res[1])}

\* C15: when every detail page was fetched, exactly one package's page has a
\* field-extraction error and the pages of the other packages (there is one at
\* least) are regular, the run ends in success and prints the records of all
\* the other packages.
C15_ExtractionErrorIsIsolated ==
    (/\ DetailPhaseOver
     /\ Fetched = Keys(futures)
     /\ Cardinality(BrokenPages) = 1
     /\ Fetched \ BrokenPages # {}
     /\ \A i \in Fetched \ BrokenPages : Regular(futures[i].res[1])
     /\ \A i \in BrokenPages, j \in Fetched \ BrokenPages :
            package_names[i] # package_names[j])
        => /\ ret = "None"
           /\ Emitted
           /\ \A i \in Fetched \ BrokenPages : HasKey(stdout[1], package_names[i])

\* the threads are scheduled and every fetch returns: a step that can be taken
\* is taken in the end
FairSpec == Spec /\ WF_vars(Next)

Ended(fs) == \A k \in DOMAIN fs : fs[k].st \in {"finished", "drained"}

\* C16: the pool of a phase is torn down (main leaves the phase) only in a step
\* before which every submitted task has ended, with its result or its
\* exception; this holds too when the draining thread raised while tasks were
\* pending (no task is cancelled: every listing page submitted was requested).
\* And, every fetch returning, the run terminates.
C16_TasksEndBeforeTeardown ==
    /\ [][/\ (pc \in {"listing", "listing_raised"} /\ pc' \notin {"listing", "listing_raised"})
                => Ended(listing_futures) /\ requests = DOMAIN listing_futures
          /\ (pc = "fetching" /\ pc' # "fetching") => Ended(futures)]_vars
    /\ <>(pc = "exited")

\* C16, witness: the draining thread has raised while a task is still queued
\* and another one is executed
C16_Witness ==
    /\ pc = "listing_raised"
    /\ \E p \in DOMAIN listing_futures : listing_futures[p].st = "queued"
    /\ \E p \in DOMAIN listing_futures : listing_futures[p].st = "running"

Executing(fs) == {k \in DOMAIN fs : fs[k].st = "running"}
Waiting(fs) == {k \in DOMAIN fs : fs[k].st = "queued"}

\* C17: at every moment of either collection phase the tasks that workers
\* execute are at most max_workers, however many tasks were submitted at once.
C17_AtMostMaxWorkersRun ==
    pc \in {"listing", "listing_raised", "fetching"} =>
        /\ Cardinality(Executing(listing_futures)) <= args.max_workers
        /\ Cardinality(Executing(futures)) <= args.max_workers

\* C17, witness: every worker executes a task while a submitted task waits
C17_Witness ==
    /\ pc = "fetching"
    /\ Cardinality(Executing(futures)) = args.max_workers
    /\ Waiting(futures) # {}

NamesOf(names) == {names[j] : j \in 1..Len(names)}

\* C18: every key of the printed ResultSet is a name of the run's name list,
\* which with a cache file at start is the list of the file's lines.
C18_KeysAreListedNames ==
    Emitted =>
        /\ \A i \in 1..Len(stdout[1]) : stdout[1][i].key \in NamesOf(package_names)
        /\ cache_at_start # None =>
              \A i \in 1..Len(stdout[1]) :
                  stdout[1][i].key \in NamesOf(SplitLines(cache_at_start[1]))

\* C18, witness: a ResultSet of two records was printed after a listing
C18_Witness ==
    /\ Emitted
    /\ Len(stdout[1]) = 2
    /\ cache_at_start = None

\* C20: when the run found no cache file and its listing ended without a name,
\* main has reported the error and returned 1, and nothing else happened: no
\* cache file was written, no detail task was submitted, no page was stored
\* and nothing was printed to standard output.
C20_NoNamesNoSideEffects ==
    (/\ cache_at_start = None
     /\ Returned
     /\ ret # "exception"
     /\ package_names = <<>>)
        => /\ stderr = <<NoNamesMessage>>
           /\ ret = "1"
           /\ \A d \in Dirs : files[d] = None
           /\ futures = <<>>
           /\ pages = <<>>
           /\ stdout = <<>>

\* C20, witness: two listing pages were requested, none listed a name, and the
\* process has exited
C20_Witness ==
    /\ cache_at_start = None
    /\ Cardinality(requests) >= 2
    /\ package_names = <<>>
    /\ stderr = <<NoNamesMessage>>
    /\ pc = "exited"

\* ------------------------------------------------------------------ last_upload

\* the words of the text of a 'Last upload' node ("1 year and 2 months ago"): a
\* number, a unit in the singular or in the plural, or another word
UnitWords == {"years", "year", "months", "month", "days", "day"}
Words == NumberWords \cup UnitWords \cup {"ago"}
UploadTexts == SeqsUpTo(Words, MaxWords)
UploadNodes ==
    {None} \cup {Some([has_text |-> TRUE, text |-> t]) : t \in UploadTexts}
UploadPage(node) ==
    [download_count |-> Some([numeric |-> TRUE, value |-> 1]),
     home_page |-> None,
     last_upload |-> node]

\* the end of the detail phase of a run on a cache file of one line, the page of
\* that package fetched and stored; its 'Last upload' node is any of UploadNodes
InitParse ==
    /\ argv = None
    /\ args = [limit |-> None, sort_by_downloads |-> TRUE, max_workers |-> 1]
    /\ script_dir = "d1"
    /\ cwd = "d1"
    /\ files = [d \in Dirs |-> IF d = "d1" THEN Some(<<"a">>) ELSE None]
    /\ cache_at_start = Some(<<"a">>)
    /\ pc = "fetching"
    /\ listing_futures = <<>>
    /\ package_names = << <<"a">> >>
    /\ \E node \in UploadNodes :
          /\ futures = <<[st |-> "drained", res |-> Some(UploadPage(node))]>>
          /\ pages = <<[key |-> <<"a">>, val |-> Some(UploadPage(node))]>>
    /\ stdout = <<>>
    /\ stderr = <<>>
    /\ ret = "running"
    /\ exit_code = None
    /\ requests = {}

NextParse == Report \/ Exit
SpecParse == InitParse /\ [][NextParse]_vars

\* the number the text states for a unit: the first number that the unit's word
\* follows, in the singular or in the plural; 0 when the text states none
StatesAt(text, i, singular, plural) ==
    /\ i + 1 <= Len(text)
    /\ text[i] \in NumberWords
    /\ text[i + 1] \in {singular, plural}
StatedFor(text, singular, plural) ==
    IF \E i \in 1..Len(text) : StatesAt(text, i, singular, plural)
    THEN ValueOf(text[CHOOSE i \in 1..Len(text) :
                        /\ StatesAt(text, i, singular, plural)
                        /\ \A j \in 1..(i - 1) : ~StatesAt(text, j, singular, plural)])
    ELSE 0

\* C12: the last_upload of a printed record is absent if and only if the page
\* has no 'Last upload' node; when the node is there the record is printed and
\* its last_upload has the three fields years, months, days, each the number
\* the text states for that unit and 0 for a unit the text does not mention.
C12_LastUploadIsWhatTheTextStates ==
    DetailPhaseOver =>
        LET node == pages[1].val[1].last_upload
        IN /\ Emitted
           /\ stdout[1][1].val.last_upload = None <=> node = None
           /\ node # None =>
                 stdout[1][1].val.last_upload =
                     Some([years |-> StatedFor(node[1].text, "year", "years"),
                           months |-> StatedFor(node[1].text, "month", "months"),
                           days |-> StatedFor(node[1].text, "day", "days")])

\* ------------------------------------------------------------------ --sort_by_downloads

\* C19: --sort_by_downloads toggles the sort step.  The option is enabled when
\* the command line does not give the flag and disabled when it gives it, and
\* the document printed is the sorted one if and only if the option is enabled:
\* with the option disabled it is the dict in its insertion order.
C19_SortOptionToggles ==
    [][/\ (pc = "parse" /\ pc' = "start") =>
              (args'.sort_by_downloads <=> ~argv[1].sort_by_downloads)
       /\ stdout' # stdout =>
              stdout' = <<IF args.sort_by_downloads
                          THEN Sorted(PackageData(pages))
                          ELSE PackageData(pages)>>]_vars

====
